---- MODULE Spec2Model ----
(***************************************************************************)
(* A model of api/session.js of postmile: the three callback-style         *)
(* operations checkAuthorization, extensionGrant and validate, with the    *)
(* collaborators they call (Db, User, Email, Hapi.Session, Crypto) as      *)
(* asynchronous parties that answer in a later step.                       *)
(***************************************************************************)
EXTENDS Integers, Sequences, FiniteSets, TLC

\* ------------------------------------------------------------------ bounds

\* Grant identifiers of the one (user, client) pair are 1..MaxGrants.
MaxGrants == 2
\* Date.now() answers a value in 1..MaxNow; expirations range over 0..MaxNow+1.
MaxNow == 2

\* ---------------------------------------------------------------- JS values

\* A grant's expiration field: a number, or missing (undefined).
NoExpiration == [t |-> "undefined", n |-> 0]
Num(k) == [t |-> "number", n |-> k]

\* a < b on numbers-or-undefined: undefined converts to NaN and compares false.
JsLess(a, b) == a.t = "number" /\ b.t = "number" /\ a.n < b.n

\* (v || 0): undefined and 0 are falsy.
OrZero(v) == IF v.t = "number" /\ v.n # 0 THEN v.n ELSE 0

\* The other values: strings, booleans, numbers written out, undefined.
JsUndefined == [t |-> "undefined", v |-> ""]
JsString(s) == [t |-> "string", v |-> s]
JsBoolean(b) == [t |-> "boolean", v |-> IF b THEN "true" ELSE "false"]
JsNumber(k) == [t |-> "number", v |-> ToString(k)]

\* ToBoolean of a value, as if (x) and !x apply it.
Truthy(x) ==
    CASE x.t = "undefined" -> FALSE
      [] x.t = "string" -> x.v # ""
      [] x.t = "boolean" -> x.v = "true"
      [] x.t = "number" -> x.v \notin {"0", "NaN"}

\* a === b.
StrictEquals(a, b) == a.t = b.t /\ a.v = b.v

\* An error message: its fixed text and the values concatenated into it.
Msg(text) == [text |-> text, args |-> <<>>]

\* Hapi.Session.error(code, message), and the absent error of callback(null).
SessionError(code, message) == [code |-> code, message |-> message]
NoError == [code |-> "", message |-> Msg("")]

\* ------------------------------------------------------- checkAuthorization

Calls == {"c1", "c2"}
GrantIds == 1 .. MaxGrants
Nows == 1 .. MaxNow
Expirations == {NoExpiration} \cup {Num(k) : k \in 0 .. (MaxNow + 1)}
Grants == [_id : GrantIds, expiration : Expirations]

\* The Grant Store holds at most one grant per identifier.
Stores == {s \in SUBSET Grants : \A g, h \in s : g._id = h._id => g = h}

\* The arrays holding exactly the elements of a set, in every order.
Orderings(s) ==
    {a \in [1 .. Cardinality(s) -> s] : \A i, j \in 1 .. Cardinality(s) : a[i] = a[j] => i = j}

\* The comparator handed to items.sort.
CompareExpiration(a, b) ==
    IF JsLess(a.expiration, b.expiration) THEN -1
    ELSE IF JsLess(b.expiration, a.expiration) THEN 1
    ELSE 0

\* What items.sort(comparator) may leave in the array: a permutation in
\* which no element precedes one the comparator puts before it. When some
\* expiration is missing the comparator is not a consistent ordering and
\* the order is whatever the engine's algorithm produces: any permutation.
SortResults(items) ==
    LET n == Cardinality(items)
        consistent == \A g \in items : g.expiration.t = "number"
    IN {a \in Orderings(items) :
           consistent => \A i, j \in 1 .. n : i < j => CompareExpiration(a[j], a[i]) >= 0}

\* The test without its default: items[i].expiration <= now.
IsExpiredNoDefault(item, now) == item.expiration.t = "number" /\ item.expiration.n <= now

\* The test of the loop body, (items[i].expiration || 0) <= now.
IsExpired(item, now) == OrZero(item.expiration) <= now

\* The loop leaving at the first live grant.
RECURSIVE ClassifyFromBreak(_, _, _, _)
ClassifyFromBreak(items, i, now, acc) ==
    IF i > Len(items) THEN acc
    ELSE IF OrZero(items[i].expiration) <= now
    THEN ClassifyFromBreak(items, i + 1, now, [acc EXCEPT !.expired = Append(@, items[i]._id)])
    ELSE [acc EXCEPT !.isAuthorized = TRUE]

\* The loop pushing every identifier, expired or not.
RECURSIVE ClassifyFromAll(_, _, _, _)
ClassifyFromAll(items, i, now, acc) ==
    IF i > Len(items) THEN acc
    ELSE ClassifyFromAll(items, i + 1, now,
             [expired |-> Append(acc.expired, items[i]._id),
              isAuthorized |-> acc.isAuthorized \/ OrZero(items[i].expiration) > now])

\* The classification loop over the sorted array: [expired, isAuthorized].
RECURSIVE ClassifyFrom(_, _, _, _)
ClassifyFrom(items, i, now, acc) ==
    IF i > Len(items) THEN acc
    ELSE ClassifyFrom(items, i + 1, now,
             IF IsExpired(items[i], now)
             THEN [acc EXCEPT !.expired = Append(@, items[i]._id)]
             ELSE [acc EXCEPT !.isAuthorized = TRUE])

Classify(items, now) == ClassifyFrom(items, 1, now, [expired |-> <<>>, isAuthorized |-> FALSE])

Range(seq) == {seq[i] : i \in 1 .. Len(seq)}

\* The removeMany call of the handler: none when nothing expired.
NoRemoval == [status |-> "none", ids |-> <<>>]
RemoveManyCall(expired) ==
    IF Len(expired) > 0 THEN [status |-> "pending", ids |-> expired] ELSE NoRemoval

\* The end of the handler without the return of its failure branch.
DeliverFallsThrough(isAuthorized) ==
    IF ~isAuthorized
    THEN <<SessionError("invalid_grant", Msg("Client authorization expired")), NoError>>
    ELSE <<NoError>>

\* The end of the handler: the callback invocations after the loop.
Deliver(isAuthorized) ==
    IF ~isAuthorized
    THEN <<SessionError("invalid_grant", Msg("Client authorization expired"))>>
    ELSE <<NoError>>

\* The callback without the test of items.length.
HandleQueryNoLengthTest(answer, sorted, now) ==
    IF answer.err
    THEN [callbacks |-> <<SessionError("server_error", Msg("Failed retrieving authorization"))>>,
          removal |-> NoRemoval]
    ELSE IF ~answer.present
    THEN [callbacks |-> <<SessionError("invalid_grant", Msg("Client is not authorized"))>>,
          removal |-> NoRemoval]
    ELSE [callbacks |-> Deliver(Classify(sorted, now).isAuthorized),
          removal |-> RemoveManyCall(Classify(sorted, now).expired)]

\* The callback handed to Db.query, on its answer (items, err), with the
\* array as items.sort leaves it and the value of Date.now(): the callback
\* invocations it makes and the removeMany call it issues.
HandleQuery(answer, sorted, now) ==
    IF answer.err
    THEN [callbacks |-> <<SessionError("server_error", Msg("Failed retrieving authorization"))>>,
          removal |-> NoRemoval]
    ELSE IF ~answer.present \/ Len(sorted) <= 0
    THEN [callbacks |-> <<SessionError("invalid_grant", Msg("Client is not authorized"))>>,
          removal |-> NoRemoval]
    ELSE LET outcome == Classify(sorted, now)
         IN [callbacks |-> Deliver(outcome.isAuthorized),
             removal |-> RemoveManyCall(outcome.expired)]

VARIABLES
    component,    \* which of the three operations this behaviour exercises
    store,        \* the Grant Store's grants of the (user, client) pair
    issued,       \* the grant identifiers ever given out
    pc,           \* per call: "idle", "query" (Db.query in flight), "done"
    inflight,     \* per call: the answer Db.query will deliver
    nowAt,        \* per call: the value Date.now() returned in the handler
    callbacks,    \* per call: the values handed to the caller's callback, in order
    removal,      \* per call: the Db.removeMany call it issued and its outcome
    extPc,        \* extensionGrant: "idle", "wait" (a collaborator in flight), "done"
    extRequest,   \* extensionGrant: the request and the client it was called with
    extCalls,     \* extensionGrant: the collaborator calls made, in order
    extAnswer,    \* extensionGrant: what the collaborator answered
    extCallbacks, \* extensionGrant: the values handed to the caller's callback
    extThrown,    \* extensionGrant: a TypeError escaped the handler
    valPc,        \* validate: "idle", "token" (loadToken in flight), "done"
    valRequest,   \* validate: message, token and mac
    valSession,   \* validate: the session loadToken decoded
    valCallbacks  \* validate: the values handed to the caller's callback

authVars == <<store, issued, pc, inflight, nowAt, callbacks, removal>>
extVars == <<extPc, extRequest, extCalls, extAnswer, extCallbacks, extThrown>>
valVars == <<valPc, valRequest, valSession, valCallbacks>>
vars == <<component, authVars, extVars, valVars>>

NoAnswer == [err |-> FALSE, present |-> FALSE, items |-> {}]

\* What Db.query('grant', {user, client}) can answer: a failure, no array
\* at all, or the grants the store holds when it is read.
QueryAnswers(s) ==
    {[err |-> TRUE, present |-> FALSE, items |-> {}],
     [err |-> FALSE, present |-> FALSE, items |-> {}],
     [err |-> FALSE, present |-> TRUE, items |-> s]}

InitAuth ==
    /\ store \in (IF component = "auth" THEN Stores ELSE {{}})
    /\ issued = {g._id : g \in store}
    /\ pc = [c \in Calls |-> "idle"]
    /\ inflight = [c \in Calls |-> NoAnswer]
    /\ nowAt = [c \in Calls |-> 0]
    /\ callbacks = [c \in Calls |-> <<>>]
    /\ removal = [c \in Calls |-> NoRemoval]

\* A grant is created on user consent, under an identifier never used before.
AddGrant ==
    /\ component = "auth"
    /\ \E g \in Grants :
          /\ g._id \notin issued
          /\ store' = store \cup {g}
          /\ issued' = issued \cup {g._id}
    /\ UNCHANGED <<component, pc, inflight, nowAt, callbacks, removal, extVars, valVars>>

\* exports.checkAuthorization up to the call of Db.query; the store is read.
CheckAuthorization(c) ==
    /\ component = "auth"
    /\ pc[c] = "idle"
    /\ \E answer \in QueryAnswers(store) : inflight' = [inflight EXCEPT ![c] = answer]
    /\ pc' = [pc EXCEPT ![c] = "query"]
    /\ UNCHANGED <<component, store, issued, nowAt, callbacks, removal, extVars, valVars>>

\* Db.query answers and its callback runs to the end: sort, classify
\* against Date.now(), issue the deletion of the expired grants, answer the
\* caller.
QueryCallback(c) ==
    /\ component = "auth"
    /\ pc[c] = "query"
    /\ \E sorted \in SortResults(inflight[c].items), now \in Nows :
          LET handled == HandleQuery(inflight[c], sorted, now)
          IN /\ nowAt' = [nowAt EXCEPT ![c] = IF Len(sorted) > 0 THEN now ELSE @]
             /\ removal' = [removal EXCEPT ![c] = handled.removal]
             /\ callbacks' = [callbacks EXCEPT ![c] = @ \o handled.callbacks]
    /\ pc' = [pc EXCEPT ![c] = "done"]
    /\ UNCHANGED <<component, store, issued, inflight, extVars, valVars>>

\* A removeMany callback that reports the failure of the deletion.
RemoveManyCallbackReports(c, err) ==
    /\ callbacks' = [callbacks EXCEPT ![c] =
           IF err THEN Append(@, SessionError("server_error", Msg("Failed removing grants")))
           ELSE @]
    /\ UNCHANGED pc

\* function (err) { } : the callback handed to Db.removeMany.
RemoveManyCallback(c, err) == UNCHANGED <<callbacks, pc>>

\* Db.removeMany completes: the grants named are gone (one already gone is
\* no error), or the deletion fails and the store keeps what it had.
RemoveManyDone(c) ==
    /\ component = "auth"
    /\ removal[c].status = "pending"
    /\ \E err \in BOOLEAN :
          /\ store' = IF err THEN store ELSE {g \in store : g._id \notin Range(removal[c].ids)}
          /\ removal' = [removal EXCEPT ![c].status = IF err THEN "failed" ELSE "ok"]
          /\ RemoveManyCallback(c, err)
    /\ UNCHANGED <<component, issued, inflight, nowAt, extVars, valVars>>

NextAuth ==
    \/ AddGrant
    \/ \E c \in Calls :
        \/ CheckAuthorization(c)
        \/ QueryCallback(c)
        \/ RemoveManyDone(c)

\* ----------------------------------------------------------- extensionGrant

\* Strings the code takes apart are arrays of characters here.
Namespace ==
    <<"h", "t", "t", "p", ":", "/", "/", "n", "s", ".", "p", "o", "s", "t",
      "m", "i", "l", "e", ".", "n", "e", "t", "/">>
Id == <<"i", "d">>
Twitter == <<"t", "w", "i", "t", "t", "e", "r">>
Facebook == <<"f", "a", "c", "e", "b", "o", "o", "k">>
Yahoo == <<"y", "a", "h", "o", "o">>
Email == <<"e", "m", "a", "i", "l">>
Github == <<"g", "i", "t", "h", "u", "b">>

LineTerminators == {"\n", "\r"}

\* Whether the pattern, read as a regular expression whose only special
\* character is the dot, matches s at the 1-based position i.
RegExpMatchesAt(s, pattern, i) ==
    /\ i + Len(pattern) - 1 <= Len(s)
    /\ \A k \in 1 .. Len(pattern) :
          IF pattern[k] = "." THEN s[i + k - 1] \notin LineTerminators
          ELSE s[i + k - 1] = pattern[k]

\* String.prototype.search(pattern): the pattern string becomes a RegExp;
\* the 0-based index of the first match, or -1.
Search(s, pattern) ==
    LET hits == {i \in 1 .. Len(s) + 1 : RegExpMatchesAt(s, pattern, i)}
    IN IF hits = {} THEN -1 ELSE (CHOOSE i \in hits : \A j \in hits : i <= j) - 1

\* Whether s holds exactly the characters of text at the 1-based position i.
OccursAt(s, text, i) ==
    /\ i + Len(text) - 1 <= Len(s)
    /\ \A k \in 1 .. Len(text) : s[i + k - 1] = text[k]

\* String.prototype.replace(text, ''): a string pattern is taken literally
\* and its first occurrence only is removed.
ReplaceFirst(s, text) ==
    LET hits == {i \in 1 .. Len(s) + 1 : OccursAt(s, text, i)}
    IN IF hits = {} THEN s
       ELSE LET i == CHOOSE h \in hits : \A j \in hits : h <= j
            IN SubSeq(s, 1, i - 1) \o SubSeq(s, i + Len(text), Len(s))

\* Array.prototype.indexOf(x): the 0-based index of the first element
\* strictly equal to x, or -1.
IndexOf(arr, x) ==
    LET hits == {i \in 1 .. Len(arr) : StrictEquals(arr[i], x)}
    IN IF hits = {} THEN -1 ELSE (CHOOSE i \in hits : \A j \in hits : i <= j) - 1

\* grantType.charAt(0).toUpperCase() + grantType.slice(1)
ToUpperCase(ch) ==
    CASE ch = "t" -> "T"
      [] ch = "f" -> "F"
      [] ch = "y" -> "Y"
      [] OTHER -> ch
Capitalize(s) == IF Len(s) = 0 THEN s ELSE <<ToUpperCase(s[1])>> \o SubSeq(s, 2, Len(s))

\* A message with a value concatenated in.
MsgAbout(text, insert, id) == [text |-> text, args |-> <<[insert |-> insert, id |-> id]>>]

\* A scope is an array of capability strings, or absent.
NoScope == [defined |-> FALSE, arr |-> <<>>]
Scope(arr) == [defined |-> TRUE, arr |-> arr]
Login == JsString("login")
Scopes ==
    {NoScope, Scope(<<>>), Scope(<<Login>>), Scope(<<JsString("reminder")>>),
     Scope(<<JsString("reminder"), Login>>)}
NoSession == [present |-> FALSE, scope |-> NoScope]
Sessions == {NoSession} \cup {[present |-> TRUE, scope |-> s] : s \in Scopes}
Clients == [scope : Scopes]

\* The grant types tried: the namespace with each suffix, and strings that
\* do not begin with it.
Dotless(s) == [i \in 1 .. Len(s) |-> IF s[i] = "." THEN "-" ELSE s[i]]
InNamespace == {Namespace \o suffix : suffix \in {Id, Twitter, Facebook, Yahoo, Email, Github, <<>>}}
OutOfNamespace ==
    {Id, <<>>, <<"u", "r", "n", ":", "i", "d">>,
     Dotless(Namespace) \o Id, Dotless(Namespace) \o Email,
     [Namespace EXCEPT ![10] = "\n"] \o Id,
     <<"x">> \o Namespace \o Id, Id \o Namespace,
     SubSeq(Namespace, 1, Len(Namespace) - 1)}
GrantTypes == InNamespace \cup OutOfNamespace

UserIds == {JsString("u1"), JsUndefined}
Payloads == [grant_type : GrantTypes, x_user_id : UserIds, x_email_token : {JsString("t1")}]
Requests == [payload : Payloads, session : Sessions]

\* What the collaborators answer, as (ticket, user, err) or (user, err).
NoTicket == [present |-> FALSE, action |-> ""]
NoErr == [present |-> FALSE, message |-> ""]
Users == {JsString("alice"), JsString("bob")}
UserAnswers ==
    {[ticket |-> NoTicket, user |-> u, err |-> NoErr] : u \in Users}
    \cup {[ticket |-> NoTicket, user |-> JsUndefined, err |-> NoErr],
          [ticket |-> NoTicket, user |-> JsUndefined, err |-> [present |-> TRUE, message |-> "db"]]}
TicketAnswers ==
    {[ticket |-> [present |-> TRUE, action |-> a], user |-> u, err |-> NoErr] :
        a \in {"verify", "reminder"}, u \in Users}
    \cup {[ticket |-> NoTicket, user |-> JsUndefined, err |-> [present |-> TRUE, message |-> m]] :
        m \in {"Invalid ticket", "Expired ticket"}}

NoMeta == [present |-> FALSE, x_action |-> ""]
\* callback(err), callback(null, user) and callback(null, user, metadata).
CallbackErr(err) == [err |-> err, user |-> JsUndefined, meta |-> NoMeta]
CallbackUser(user) == [err |-> NoError, user |-> user, meta |-> NoMeta]
CallbackUserMeta(user, action) ==
    [err |-> NoError, user |-> user, meta |-> [present |-> TRUE, x_action |-> action]]

NoRequest ==
    [payload |-> [grant_type |-> <<>>, x_user_id |-> JsUndefined, x_email_token |-> JsUndefined],
     session |-> NoSession]
NoExtAnswer == [ticket |-> NoTicket, user |-> JsUndefined, err |-> NoErr]

InitExt ==
    /\ extPc = "idle"
    /\ extRequest = [request |-> NoRequest, client |-> [scope |-> NoScope]]
    /\ extCalls = <<>>
    /\ extAnswer = NoExtAnswer
    /\ extCallbacks = <<>>
    /\ extThrown = FALSE

\* request.payload.grant_type.search('http://ns.postmile.net/') !== 0 is false.
PassesNamespaceTest(grant_type) == Search(grant_type, Namespace) = 0

\* The condition of the scope check as written: the argument of the first
\* indexOf is the value of ('login' === -1).
FailsScopeCheck(request, client) ==
    /\ \/ ~client.scope.defined
       \/ IndexOf(client.scope.arr, JsBoolean(StrictEquals(Login, JsNumber(-1)))) # 0
    /\ \/ ~request.session.present
       \/ ~request.session.scope.defined
       \/ IndexOf(request.session.scope.arr, Login) = -1

\* request.payload.grant_type.replace('http://ns.postmile.net/', '')
GrantTypeOf(grant_type) == ReplaceFirst(grant_type, Namespace)

CallOf(fn, arg, provider) == [fn |-> fn, arg |-> arg, provider |-> provider]

\* The synchronous part of exports.extensionGrant: the callback values it
\* delivers at once and the collaborator call it starts.
ExtensionGrantBody(request, client) ==
    IF ~PassesNamespaceTest(request.payload.grant_type)
    THEN [callbacks |-> <<CallbackErr(SessionError("unsupported_grant_type",
                              Msg("Unknown or unsupported grant type namespace")))>>,
          calls |-> <<>>]
    ELSE IF FailsScopeCheck(request, client)
    THEN [callbacks |-> <<CallbackErr(SessionError("unauthorized_client",
                              Msg("Client missing 'login' scope")))>>,
          calls |-> <<>>]
    ELSE LET grantType == GrantTypeOf(request.payload.grant_type)
         IN IF grantType = Id
            THEN [callbacks |-> <<>>,
                  calls |-> <<CallOf("User.load", request.payload.x_user_id, <<>>)>>]
            ELSE IF grantType = Twitter \/ grantType = Facebook \/ grantType = Yahoo
            THEN [callbacks |-> <<>>,
                  calls |-> <<CallOf("User.validate", request.payload.x_user_id, grantType)>>]
            ELSE IF grantType = Email
            THEN [callbacks |-> <<>>,
                  calls |-> <<CallOf("Email.loadTicket", request.payload.x_email_token, <<>>)>>]
            ELSE [callbacks |-> <<CallbackErr(SessionError("unsupported_grant_type",
                                      MsgAbout("Unknown or unsupported grant type: ",
                                               grantType, JsUndefined)))>>,
                  calls |-> <<>>]

ExtensionGrant ==
    /\ component = "ext"
    /\ extPc = "idle"
    /\ \E request \in Requests, client \in Clients :
          LET body == ExtensionGrantBody(request, client)
          IN /\ extRequest' = [request |-> request, client |-> client]
             /\ extCallbacks' = body.callbacks
             /\ extCalls' = body.calls
             /\ extPc' = IF body.calls = <<>> THEN "done" ELSE "wait"
    /\ UNCHANGED <<component, authVars, valVars, extAnswer, extThrown>>

\* function (user, err) of the 'id' branch.
UserLoadResult(user) ==
    IF ~Truthy(user)
    THEN <<CallbackErr(SessionError("invalid_grant", Msg("Unknown local account")))>>
    ELSE <<CallbackUser(user)>>

UserLoadCallback ==
    /\ component = "ext"
    /\ extPc = "wait"
    /\ extCalls[1].fn = "User.load"
    /\ \E answer \in UserAnswers :
          /\ extAnswer' = answer
          /\ extCallbacks' = extCallbacks \o UserLoadResult(answer.user)
    /\ extPc' = "done"
    /\ UNCHANGED <<component, authVars, valVars, extRequest, extCalls, extThrown>>

\* function (user, err) of the network branch.
UserValidateResult(user, grantType, x_user_id) ==
    IF ~Truthy(user)
    THEN <<CallbackErr(SessionError("invalid_grant",
               MsgAbout("Unknown %s account: ", Capitalize(grantType), x_user_id)))>>
    ELSE <<CallbackUser(user)>>

UserValidateCallback ==
    /\ component = "ext"
    /\ extPc = "wait"
    /\ extCalls[1].fn = "User.validate"
    /\ \E answer \in UserAnswers :
          /\ extAnswer' = answer
          /\ extCallbacks' = extCallbacks \o
                UserValidateResult(answer.user, extCalls[1].provider,
                                   extRequest.request.payload.x_user_id)
    /\ extPc' = "done"
    /\ UNCHANGED <<component, authVars, valVars, extRequest, extCalls, extThrown>>

\* The 'email' branch answering without the ticket's action.
LoadTicketResultNoAction(ticket, user, err) ==
    IF ~ticket.present
    THEN [callbacks |-> <<CallbackErr(SessionError("invalid_grant", Msg(err.message)))>>,
          thrown |-> FALSE]
    ELSE [callbacks |-> <<CallbackUser(user)>>, thrown |-> FALSE]

\* function (ticket, user, err) of the 'email' branch. Reading err.message
\* of an absent err throws, and nothing is delivered.
LoadTicketResult(ticket, user, err) ==
    IF ~ticket.present
    THEN IF err.present
         THEN [callbacks |-> <<CallbackErr(SessionError("invalid_grant", Msg(err.message)))>>,
               thrown |-> FALSE]
         ELSE [callbacks |-> <<>>, thrown |-> TRUE]
    ELSE [callbacks |-> <<CallbackUserMeta(user, ticket.action)>>, thrown |-> FALSE]

LoadTicketCallback ==
    /\ component = "ext"
    /\ extPc = "wait"
    /\ extCalls[1].fn = "Email.loadTicket"
    /\ \E answer \in TicketAnswers :
          LET result == LoadTicketResult(answer.ticket, answer.user, answer.err)
          IN /\ extAnswer' = answer
             /\ extCallbacks' = extCallbacks \o result.callbacks
             /\ extThrown' = result.thrown
    /\ extPc' = "done"
    /\ UNCHANGED <<component, authVars, valVars, extRequest, extCalls>>

NextExt ==
    \/ ExtensionGrant
    \/ UserLoadCallback
    \/ UserValidateCallback
    \/ LoadTicketCallback

\* ----------------------------------------------------------------- validate

\* The digests an HMAC can take are 0..MaxDigest.
MaxDigest == 3

\* Hapi.Error.notFound / internal / unauthorized (message).
HapiError(kind, message) == [code |-> kind, message |-> Msg(message)]

Algorithms ==
    {JsUndefined, JsString(""), JsString("hmac-sha-1"), JsString("hmac-sha-256"),
     JsString("hmac-md5")}
Keys == {JsUndefined, JsString(""), JsString("k1"), JsString("k2")}
BoundUsers == {JsUndefined, JsString("alice")}
NoDecoded == [present |-> FALSE, algorithm |-> JsUndefined, key |-> JsUndefined, user |-> JsUndefined]
\* What Hapi.Session.loadToken can hand to its callback.
DecodedSessions ==
    {NoDecoded} \cup [present : {TRUE}, algorithm : Algorithms, key : Keys, user : BoundUsers]

\* The switch with a default case.
HashMethodDefault(algorithm) ==
    CASE StrictEquals(algorithm, JsString("hmac-sha-256")) -> JsString("sha256")
      [] OTHER -> JsString("sha1")

\* The switch on session.algorithm; null when no case matches.
HashMethod(algorithm) ==
    CASE StrictEquals(algorithm, JsString("hmac-sha-1")) -> JsString("sha1")
      [] StrictEquals(algorithm, JsString("hmac-sha-256")) -> JsString("sha256")
      [] OTHER -> JsUndefined

\* Crypto.createHmac(hashMethod, key).update(message): a digest that depends
\* on the hash, the key and every message, in a space small enough to collide.
Weight(x) ==
    CASE x.v = "sha1" -> 1
      [] x.v = "sha256" -> 2
      [] x.v = "k1" -> 3
      [] x.v = "k2" -> 5
      [] x.v = "m1" -> 7
      [] x.v = "m2" -> 8
      [] OTHER -> 0
Hmac(hashMethod, key, message) ==
    (Weight(hashMethod) + Weight(key) * Weight(message)) % (MaxDigest + 1)

\* hmac.digest('base64'): the digest written as a string.
Base64(digest) == JsString(ToString(digest) \o "=")

Messages == {JsString("m1"), JsString("m2")}
Macs == {Base64(d) : d \in 0 .. MaxDigest} \cup {JsString("0"), JsUndefined}
ValRequests == [message : Messages, token : {JsString("t1")}, mac : Macs]

\* callback(user, err)
ValCallback(user, err) == [user |-> user, err |-> err]

\* The callback handed to Hapi.Session.loadToken.
LoadTokenResult(session, message, mac) ==
    IF /\ session.present
       /\ Truthy(session.algorithm)
       /\ Truthy(session.key)
       /\ Truthy(session.user)
    THEN LET hashMethod == HashMethod(session.algorithm)
         IN IF Truthy(hashMethod)
            THEN LET digest == Base64(Hmac(hashMethod, session.key, message))
                 IN IF StrictEquals(digest, mac)
                    THEN <<ValCallback(session.user, NoError)>>
                    ELSE <<ValCallback(JsUndefined, HapiError("unauthorized", "Invalid mac"))>>
            ELSE <<ValCallback(JsUndefined, HapiError("internal", "Unknown algorithm"))>>
    ELSE <<ValCallback(JsUndefined, HapiError("notFound", "Invalid token"))>>

InitVal ==
    /\ valPc = "idle"
    /\ valRequest = [message |-> JsUndefined, token |-> JsUndefined, mac |-> JsUndefined]
    /\ valSession = NoDecoded
    /\ valCallbacks = <<>>

\* exports.validate up to the call of Hapi.Session.loadToken.
Validate ==
    /\ component = "val"
    /\ valPc = "idle"
    /\ \E request \in ValRequests : valRequest' = request
    /\ valPc' = "token"
    /\ UNCHANGED <<component, authVars, extVars, valSession, valCallbacks>>

LoadTokenCallback ==
    /\ component = "val"
    /\ valPc = "token"
    /\ \E session \in DecodedSessions :
          /\ valSession' = session
          /\ valCallbacks' = valCallbacks \o
                LoadTokenResult(session, valRequest.message, valRequest.mac)
    /\ valPc' = "done"
    /\ UNCHANGED <<component, authVars, extVars, valRequest>>

NextVal ==
    \/ Validate
    \/ LoadTokenCallback

\* ------------------------------------------------------------ specifications

Init ==
    /\ component \in {"auth", "ext", "val"}
    /\ InitAuth
    /\ InitExt
    /\ InitVal

Next ==
    \/ NextAuth
    \/ NextExt
    \/ NextVal

Spec == Init /\ [][Next]_vars

\* Each operation alone.
InitOfAuth == component = "auth" /\ InitAuth /\ InitExt /\ InitVal
InitOfExt == component = "ext" /\ InitAuth /\ InitExt /\ InitVal
InitOfVal == component = "val" /\ InitAuth /\ InitExt /\ InitVal
SpecAuth == InitOfAuth /\ [][NextAuth]_vars
SpecExt == InitOfExt /\ [][NextExt]_vars
SpecVal == InitOfVal /\ [][NextVal]_vars

\* -------------------------------------------------- checkAuthorization claims

\* A grant counts as live at a time when its expiration is a number past it.
LiveAt(g, now) == g.expiration.t = "number" /\ g.expiration.n > now
ExpiredIdsOf(c) == {g._id : g \in {h \in inflight[c].items : ~LiveAt(h, nowAt[c])}}
Answered(c) == pc[c] = "done"
FetchedSome(c) == Answered(c) /\ ~inflight[c].err /\ inflight[c].present /\ inflight[c].items # {}
ExpiredError == SessionError("invalid_grant", Msg("Client authorization expired"))
NotAuthorizedError == SessionError("invalid_grant", Msg("Client is not authorized"))
RetrievalError == SessionError("server_error", Msg("Failed retrieving authorization"))

\* C1: on a non-empty fetched set the caller gets success exactly when some
\* fetched grant has expiration > now, whatever else is in the set, and the
\* 'Client authorization expired' failure otherwise; a missing or zero
\* expiration counts as expired.
C1_DecisionIsLiveness ==
    \A c \in Calls :
        FetchedSome(c) =>
            /\ Len(callbacks[c]) = 1
            /\ callbacks[c][1] = NoError <=> \E g \in inflight[c].items : LiveAt(g, nowAt[c])
            /\ (\A g \in inflight[c].items : ~LiveAt(g, nowAt[c])) => callbacks[c][1] = ExpiredError

\* One call succeeds on a grant with no expiration beside a live one; the
\* other fails on a grant with no expiration beside one expiring just now.
C1_Witness ==
    /\ \E c \in Calls :
          /\ FetchedSome(c)
          /\ callbacks[c] = <<NoError>>
          /\ \E g, h \in inflight[c].items :
                g.expiration = NoExpiration /\ LiveAt(h, nowAt[c])
    /\ \E c \in Calls :
          /\ FetchedSome(c)
          /\ callbacks[c] = <<ExpiredError>>
          /\ \E g, h \in inflight[c].items :
                g.expiration = NoExpiration /\ h.expiration = Num(nowAt[c])

\* C2: the identifiers handed to Db.removeMany are exactly those of the
\* fetched grants whose expiration is missing, zero or <= now, live grant
\* found or not, and no removeMany is issued when there are none.
C2_RemovesExactlyExpired ==
    \A c \in Calls :
        FetchedSome(c) =>
            IF ExpiredIdsOf(c) = {} THEN removal[c] = NoRemoval
            ELSE removal[c].status # "none" /\ Range(removal[c].ids) = ExpiredIdsOf(c)

\* A call that succeeded on a live grant and still handed over an expired one.
C2_Witness ==
    \E c \in Calls :
        /\ FetchedSome(c)
        /\ callbacks[c] = <<NoError>>
        /\ removal[c].status = "pending"
        /\ Len(removal[c].ids) = 1
        /\ Cardinality(inflight[c].items) = 2

\* C3: a failed fetch gives ServerError 'Failed retrieving authorization',
\* an empty or absent result gives InvalidGrant 'Client is not authorized',
\* neither issues a deletion, and a non-empty fetched set never gives the
\* 'not authorized' failure.
C3_FetchFailures ==
    \A c \in Calls :
        Answered(c) =>
            /\ inflight[c].err => callbacks[c] = <<RetrievalError>> /\ removal[c] = NoRemoval
            /\ (~inflight[c].err /\ (~inflight[c].present \/ inflight[c].items = {})) =>
                   callbacks[c] = <<NotAuthorizedError>> /\ removal[c] = NoRemoval
            /\ FetchedSome(c) => callbacks[c] \in {<<NoError>>, <<ExpiredError>>}

\* One call whose fetch failed beside one that found an empty array.
C3_Witness ==
    \E c, d \in Calls :
        /\ Answered(c) /\ inflight[c].err
        /\ Answered(d) /\ ~inflight[d].err /\ inflight[d].present /\ inflight[d].items = {}

\* C8: the decision is delivered while the deletion is still outstanding,
\* and the deletion's completion, good or bad, delivers nothing more and
\* changes nothing delivered.
C8_DecisionIgnoresDeletion ==
    [][\A c \in Calls :
           /\ removal[c].status = "pending" => Len(callbacks[c]) = 1
           /\ removal'[c].status = "pending" => Len(callbacks'[c]) = 1
           /\ Len(callbacks[c]) = 1 => callbacks'[c] = callbacks[c]]_vars

\* One call answered with its deletion outstanding, the other answered
\* with success and its deletion failed.
C8_Witness ==
    \E c, d \in Calls :
        /\ Len(callbacks[c]) = 1 /\ removal[c].status = "pending"
        /\ callbacks[d] = <<NoError>> /\ removal[d].status = "failed"

\* C9: with two calls racing on the same grants, each decision is that of
\* the set the call fetched, no call is failed by the other's deletion, and
\* once a call's deletion has been applied the store holds none of the
\* grants it classified as expired, while every grant both calls
\* classified as live is still there.
C9_ConcurrentCalls ==
    \A c, d \in Calls :
        (c # d /\ FetchedSome(c) /\ FetchedSome(d)) =>
            /\ callbacks[c] =
                   IF \E g \in inflight[c].items : LiveAt(g, nowAt[c])
                   THEN <<NoError>> ELSE <<ExpiredError>>
            /\ (removal[c].status = "ok" /\ removal[d].status = "ok") =>
                   \A g \in store : g._id \notin ExpiredIdsOf(c) \cup ExpiredIdsOf(d)
            /\ \A g \in inflight[c].items \cap inflight[d].items :
                   (LiveAt(g, nowAt[c]) /\ LiveAt(g, nowAt[d])) => g \in store

\* Both calls fetched the same expired grant and the same live one, and
\* both deletions have been applied.
C9_Witness ==
    \E c, d \in Calls :
        /\ c # d /\ FetchedSome(c) /\ FetchedSome(d)
        /\ removal[c].status = "ok" /\ removal[d].status = "ok"
        /\ ExpiredIdsOf(c) \cap ExpiredIdsOf(d) # {}
        /\ \E g \in inflight[c].items \cap inflight[d].items :
              LiveAt(g, nowAt[c]) /\ LiveAt(g, nowAt[d])

\* ------------------------------------------------------ extensionGrant claims

\* Whether s begins with the characters of prefix, and what follows them.
BeginsWith(s, prefix) == Len(s) >= Len(prefix) /\ SubSeq(s, 1, Len(prefix)) = prefix
SuffixOf(s, prefix) == SubSeq(s, Len(prefix) + 1, Len(s))
Contains(scope, capability) ==
    scope.defined /\ \E i \in 1 .. Len(scope.arr) : scope.arr[i] = capability
ExtCalled == extPc # "idle"
GrantTypeGiven == extRequest.request.payload.grant_type
ExtFailedWith(code) ==
    /\ extPc = "done"
    /\ Len(extCallbacks) = 1
    /\ extCallbacks[1].err.code = code
    /\ extCallbacks[1].user = JsUndefined
    /\ ~extCallbacks[1].meta.present

\* C4: a grant type that does not begin with 'http://ns.postmile.net/'
\* always fails with UnsupportedGrantType, whatever the payload and the
\* scopes, and no collaborator is called.
C4_OutsideNamespaceUnsupported ==
    (ExtCalled /\ ~BeginsWith(GrantTypeGiven, Namespace)) =>
        ExtFailedWith("unsupported_grant_type") /\ extCalls = <<>>

\* C5: an in-namespace request fails with UnauthorizedClient, with no
\* collaborator called, exactly when neither the client's scope nor the
\* session's scope contains 'login'.
C5_ScopeGate ==
    (ExtCalled /\ BeginsWith(GrantTypeGiven, Namespace)) =>
        ((ExtFailedWith("unauthorized_client") /\ extCalls = <<>>)
            <=> (/\ ~Contains(extRequest.client.scope, Login)
                 /\ ~(extRequest.request.session.present
                      /\ Contains(extRequest.request.session.scope, Login))))

PassedGate == ~(extPc = "done" /\ Len(extCallbacks) = 1
                /\ extCallbacks[1].err.code = "unauthorized_client")
Payload == extRequest.request.payload

\* C6: an in-namespace request past the scope gate is decided by its suffix
\* and the one collaborator's answer: 'id' and the three networks give the
\* user found or InvalidGrant, 'email' gives the ticket's user with the
\* ticket's action as metadata or InvalidGrant with the store's message,
\* any other suffix gives UnsupportedGrantType with no collaborator called;
\* metadata comes with a redeemed ticket only, and a named strategy calls
\* exactly one collaborator.
C6_Dispatch ==
    (ExtCalled /\ BeginsWith(GrantTypeGiven, Namespace) /\ PassedGate) =>
        LET suffix == SuffixOf(GrantTypeGiven, Namespace)
            found == extAnswer.user.t = "string" /\ extAnswer.user.v # ""
            byUser ==
                IF found THEN extCallbacks = <<CallbackUser(extAnswer.user)>>
                ELSE ExtFailedWith("invalid_grant")
        IN /\ suffix = Id =>
                 /\ extCalls = <<CallOf("User.load", Payload.x_user_id, <<>>)>>
                 /\ extPc = "done" => byUser
           /\ suffix \in {Twitter, Facebook, Yahoo} =>
                 /\ extCalls = <<CallOf("User.validate", Payload.x_user_id, suffix)>>
                 /\ extPc = "done" => byUser
           /\ suffix = Email =>
                 /\ extCalls = <<CallOf("Email.loadTicket", Payload.x_email_token, <<>>)>>
                 /\ extPc = "done" =>
                       IF extAnswer.ticket.present
                       THEN extCallbacks =
                                <<CallbackUserMeta(extAnswer.user, extAnswer.ticket.action)>>
                       ELSE /\ ExtFailedWith("invalid_grant")
                            /\ extCallbacks[1].err.message = Msg(extAnswer.err.message)
           /\ suffix \notin {Id, Twitter, Facebook, Yahoo, Email} =>
                 ExtFailedWith("unsupported_grant_type") /\ extCalls = <<>>
           /\ extPc = "wait" => extCallbacks = <<>>
           /\ extPc = "done" =>
                 /\ Len(extCallbacks) = 1
                 /\ extCallbacks[1].meta.present <=> (suffix = Email /\ extAnswer.ticket.present)

\* An 'email' request whose ticket was redeemed.
C6_Witness ==
    /\ extPc = "done"
    /\ GrantTypeGiven = Namespace \o Email
    /\ extAnswer.ticket.present
    /\ Len(extCallbacks) = 1
    /\ extCallbacks[1].meta = [present |-> TRUE, x_action |-> "reminder"]

\* ------------------------------------------------------------ validate claims

Has(x) == x.t = "string" /\ x.v # ""
SessionComplete ==
    valSession.present /\ Has(valSession.algorithm) /\ Has(valSession.key) /\ Has(valSession.user)
AlgorithmKnown == valSession.algorithm.v \in {"hmac-sha-1", "hmac-sha-256"}
MacMatches ==
    valRequest.mac =
        Base64(Hmac(JsString(IF valSession.algorithm.v = "hmac-sha-1" THEN "sha1" ELSE "sha256"),
                    valSession.key, valRequest.message))

\* C7: validate succeeds with the session's user exactly when the session
\* has algorithm, key and user, the algorithm is one of the two supported
\* and mac is the base64 HMAC of message under the key; otherwise it fails
\* NotFound, else Internal, else Unauthorized, in that order, and never
\* hands over a user with an error.
C7_Validate ==
    valPc = "done" =>
        /\ Len(valCallbacks) = 1
        /\ LET r == valCallbacks[1]
           IN /\ r.err = NoError <=> (SessionComplete /\ AlgorithmKnown /\ MacMatches)
              /\ r.err = NoError => r.user = valSession.user
              /\ ~SessionComplete => r.err = HapiError("notFound", "Invalid token")
              /\ (SessionComplete /\ ~AlgorithmKnown) =>
                     r.err = HapiError("internal", "Unknown algorithm")
              /\ (SessionComplete /\ AlgorithmKnown /\ ~MacMatches) =>
                     r.err = HapiError("unauthorized", "Invalid mac")
              /\ r.err # NoError => r.user = JsUndefined

\* A message accepted under hmac-sha-256.
C7_Witness ==
    /\ valPc = "done"
    /\ valSession.algorithm = JsString("hmac-sha-256")
    /\ valCallbacks = <<ValCallback(JsString("alice"), NoError)>>

\* ------------------------------------------------------- all three operations

ErrorCodes ==
    {"server_error", "invalid_grant", "unsupported_grant_type", "unauthorized_client",
     "notFound", "internal", "unauthorized"}
Typed(err) == err = NoError \/ err.code \in ErrorCodes

\* C10: each invocation calls its caller's callback once when the
\* collaborator has answered, never before and never twice, with no error
\* or with one of the error kinds, and nothing is thrown.
C10_CallbackOnce ==
    /\ \A c \in Calls :
          /\ Len(callbacks[c]) = (IF pc[c] = "done" THEN 1 ELSE 0)
          /\ \A i \in 1 .. Len(callbacks[c]) : Typed(callbacks[c][i])
    /\ Len(extCallbacks) = (IF extPc = "done" THEN 1 ELSE 0)
    /\ \A i \in 1 .. Len(extCallbacks) : Typed(extCallbacks[i].err)
    /\ ~extThrown
    /\ Len(valCallbacks) = (IF valPc = "done" THEN 1 ELSE 0)
    /\ \A i \in 1 .. Len(valCallbacks) : Typed(valCallbacks[i].err)

\* The Ticket Store refused the ticket and the caller got its message.
C10_Witness ==
    /\ extPc = "done"
    /\ extCalls = <<CallOf("Email.loadTicket", JsString("t1"), <<>>)>>
    /\ ~extAnswer.ticket.present
    /\ extCallbacks = <<CallbackErr(SessionError("invalid_grant", Msg("Expired ticket")))>>
====
